---- MODULE Spec2Model ----
(***************************************************************************)
(* Sales data pipeline automation: SalesAutomationManager.                 *)
(*   load_config            (automation_script.py 32-76)                   *)
(*   create_backup          (automation_script.py 95-119)                  *)
(*   validate_data_quality  (automation_script.py 121-177)                 *)
(* Time is counted in whole seconds since midnight of day 0.               *)
(***************************************************************************)
EXTENDS Integers, Sequences, FiniteSets

VARIABLES
    config_file,     \* the JSON configuration file on disk
    config,          \* self.config, the dictionary load_config returned
    loaded,          \* TRUE once __init__ has run load_config
    clock,           \* datetime.now(), in seconds
    table,           \* sales_transactions: a bag of rows, row kind -> multiplicity
    vpc,             \* position inside validate_data_quality
    quality_issues,  \* the local list quality_issues
    today,           \* the local today (a day number), -1 before it is set
    ticks,           \* the seconds the clock has advanced so far
    checks_run,      \* the checks this call has entered
    obs,             \* the locals daily_count, max_amount, latest_date, hours_old
    vraised,         \* TRUE when validate_data_quality raised to its caller
    db_mtime,        \* st_mtime of the database file, -1 when the file is missing
    backups,         \* the backup directory: file name (a timestamp) -> st_mtime
    bpc,             \* position inside create_backup
    todo,            \* the files the glob of the cleanup loop has still to visit
    brun,            \* the locals and the outcome of the current create_backup call
    alerts           \* the subjects of the send_alert calls of the current call

cfgvars == <<config_file, config, loaded>>
valvars == <<table, vpc, quality_issues, today, ticks, checks_run, obs, vraised>>
bakvars == <<db_mtime, backups, bpc, todo, brun, alerts>>
vars == <<config_file, config, loaded, clock, table, vpc, quality_issues, today,
          ticks, checks_run, obs, vraised, db_mtime, backups, bpc, todo, brun, alerts>>

-----------------------------------------------------------------------------
(* Bounds of the model *)

\* the most keys (top-level and nested together) a generated config file supplies
MaxUserKeys == 2
\* the most rows of sales_transactions
MaxRows == 2
\* the most seconds the clock advances during one run
MaxTicks == 2
\* the most backup files in the directory before a call of create_backup
MaxBackups == 2

(* Program constants *)
DefaultMinDailyTransactions == 100
DefaultMaxTransactionAmount == 10000
DefaultDataFreshnessHours == 24
DefaultSmtpPort == 587
KeepDays == 7
SecondsPerHour == 3600
SecondsPerDay == 86400

-----------------------------------------------------------------------------
(* load_config *)

RECURSIVE SubsetsUpTo(_, _)
SubsetsUpTo(S, n) ==
    IF n = 0 THEN {{}}
    ELSE LET prev == SubsetsUpTo(S, n - 1)
         IN  prev \cup {p \cup {x} : p \in prev, x \in S}

default_config ==
    [database_path |-> "sales_data.db",
     backup_path |-> "backups/",
     log_path |-> "logs/",
     email_alerts |->
        [enabled |-> FALSE,
         smtp_server |-> "smtp.gmail.com",
         smtp_port |-> DefaultSmtpPort,
         sender_email |-> "",
         sender_password |-> "",
         recipients |-> <<>>],
     data_sources |->
        [crm_api_url |-> "", erp_api_url |-> "", pos_api_url |-> ""],
     quality_thresholds |->
        [min_daily_transactions |-> DefaultMinDailyTransactions,
         max_transaction_amount |-> DefaultMaxTransactionAmount,
         data_freshness_hours |-> DefaultDataFreshnessHours],
     schedule |->
        [etl_frequency |-> "hourly",
         backup_frequency |-> "daily",
         report_frequency |-> "weekly"]]

\* the top-level options whose value is a nested object
Sections == {"email_alerts", "data_sources", "quality_thresholds", "schedule"}

\* a key the program does not know: a file may hold it, and dict.update keeps it
UnknownKeys == {"retention_days"}

\* every option of the defaults, as a path: <<key>> or <<section, key>>
DocumentedPaths ==
    {<<k>> : k \in DOMAIN default_config}
    \cup UNION {{<<s, k>> : k \in DOMAIN default_config[s]} : s \in Sections}

FilePaths == DocumentedPaths \cup {<<k>> : k \in UnknownKeys}

\* the values a generated file gives to a scalar option
UserValues(p) ==
    IF p = <<"quality_thresholds", "min_daily_transactions">> THEN 1 .. MaxRows
    ELSE IF p = <<"quality_thresholds", "max_transaction_amount">>
        THEN {DefaultMaxTransactionAmount + 1}
    ELSE IF p = <<"quality_thresholds", "data_freshness_hours">> THEN {1}
    ELSE IF p = <<"retention_days">> THEN {3, KeepDays}
    ELSE IF p = <<"email_alerts", "enabled">> THEN {TRUE}
    ELSE IF p = <<"email_alerts", "smtp_port">> THEN {25}
    ELSE IF p = <<"email_alerts", "recipients">> THEN {<<"ops@example.com">>}
    ELSE {"user"}

\* path sets that are the shape of a JSON object: a nested key comes with its section
Closed(P) == \A p \in P : Len(p) = 2 => <<p[1]>> \in P

\* the JSON objects of shape P: every choice of values for the scalar paths
RECURSIVE SectionObjects(_, _)
SectionObjects(s, K) ==
    IF K = {} THEN {<<>>}
    ELSE LET k == CHOOSE x \in K : TRUE
         IN  {[j \in DOMAIN o \cup {k} |-> IF j = k THEN v ELSE o[j]] :
                 o \in SectionObjects(s, K \ {k}), v \in UserValues(<<s, k>>)}

RECURSIVE TopObjects(_, _)
TopObjects(T, P) ==
    IF T = {} THEN {<<>>}
    ELSE LET k == CHOOSE x \in T : TRUE
             vals == IF k \in Sections
                     THEN SectionObjects(k, {p[2] : p \in {q \in P : Len(q) = 2 /\ q[1] = k}})
                     ELSE UserValues(<<k>>)
         IN  {[j \in DOMAIN o \cup {k} |-> IF j = k THEN v ELSE o[j]] :
                 o \in TopObjects(T \ {k}, P), v \in vals}

ObjectsOfShape(P) == TopObjects({p[1] : p \in {q \in P : Len(q) = 1}}, P)

AbsentFile == [kind |-> "absent", obj |-> <<>>]
MalformedFile == [kind |-> "malformed", obj |-> <<>>]
ObjectFile(o) == [kind |-> "object", obj |-> o]

\* the generated files over the paths S
FilesOver(S, n) ==
    {AbsentFile, MalformedFile}
    \cup {ObjectFile(o) : o \in UNION {ObjectsOfShape(P) :
                                        P \in {Q \in SubsetsUpTo(S, n) : Closed(Q)}}}

\* dict.update: the keys of u are set in d, with u's values (no merge of nested objects)
DictUpdate(d, u) ==
    [k \in DOMAIN d \cup DOMAIN u |-> IF k \in DOMAIN u THEN u[k] ELSE d[k]]

\* load_config(config_file): the dictionary returned and the file left on disk.
\* written tells whether the open(config_file, 'w') of the absent-file branch succeeds.
load_config(file, written) ==
    IF file.kind = "object"
        THEN [config |-> DictUpdate(default_config, file.obj), file |-> file]
    ELSE IF file.kind = "absent" /\ written
        THEN [config |-> default_config, file |-> ObjectFile(default_config)]
    ELSE [config |-> default_config, file |-> file]

\* dictionary lookups along a path
Has(d, p) ==
    /\ p[1] \in DOMAIN d
    /\ Len(p) = 2 => p[2] \in DOMAIN d[p[1]]

Get(d, p) == IF Len(p) = 1 THEN d[p[1]] ELSE d[p[1]][p[2]]

\* __init__: self.config = self.load_config(config_file)
Construct ==
    /\ ~loaded
    /\ \E written \in BOOLEAN :
          LET r == load_config(config_file, written)
          IN  /\ config' = r.config
              /\ config_file' = r.file
    /\ loaded' = TRUE
    /\ UNCHANGED <<clock, valvars, bakvars>>

\* the process ends and is started again later: the file stays as it was left
Restart ==
    /\ loaded
    /\ loaded' = FALSE
    /\ config' = <<>>
    /\ config_file' = config_file
    /\ UNCHANGED <<clock, valvars, bakvars>>

-----------------------------------------------------------------------------
(* validate_data_quality *)

\* the days the rows of sales_transactions are dated on
RowDays == {0, 1}

\* total_amount of a row
Amounts == {DefaultMaxTransactionAmount, DefaultMaxTransactionAmount + 1}

\* a row: transaction_date is the text 'YYYY-MM-DD' of day `day`, or, when has_time,
\* the text 'YYYY-MM-DD 12:00:00' of that day
RowKinds == [day : RowDays, has_time : BOOLEAN, amount : Amounts]

RECURSIVE BagSize(_, _)
BagSize(t, K) ==
    IF K = {} THEN 0
    ELSE LET k == CHOOSE x \in K : TRUE IN t[k] + BagSize(t, K \ {k})

Tables == {t \in [RowKinds -> 0 .. MaxRows] : BagSize(t, RowKinds) <= MaxRows}

Rows(t) == {r \in RowKinds : t[r] > 0}

SetMax(S) == CHOOSE x \in S : \A y \in S : y <= x

SqlNull == [is_null |-> TRUE, day |-> 0, has_time |-> FALSE, val |-> 0]

\* SELECT COUNT(*) ... WHERE DATE(transaction_date) = d
CountOn(t, d) == BagSize(t, {r \in RowKinds : r.day = d})

\* SELECT MAX(total_amount) ... WHERE DATE(transaction_date) = d
MaxAmountOn(t, d) ==
    LET S == {r.amount : r \in {q \in Rows(t) : q.day = d}}
    IN  IF S = {} THEN SqlNull ELSE [SqlNull EXCEPT !.is_null = FALSE, !.val = SetMax(S)]

\* SELECT MAX(transaction_date): the greatest text; of two texts of one day the one
\* with a time part is the longer and so the greater
LatestDate(t) ==
    IF Rows(t) = {} THEN SqlNull
    ELSE LET d == SetMax({r.day : r \in Rows(t)})
         IN  [SqlNull EXCEPT !.is_null = FALSE, !.day = d,
                             !.has_time = \E r \in Rows(t) : r.day = d /\ r.has_time]

\* the instant a transaction_date text names
InstantOf(l) == l.day * SecondsPerDay + (IF l.has_time THEN 12 * SecondsPerHour ELSE 0)

\* datetime.strptime(text, '%Y-%m-%d'): a text with a time part is a ValueError
StrptimeOk(l) == ~l.has_time
Strptime(l) == l.day * SecondsPerDay

\* result.iloc[0]['max_amount'] or 0
OrZero(m) == IF m.is_null \/ m.val = 0 THEN 0 ELSE m.val

MutVolumeViolated(daily_count, min_threshold) == daily_count <= min_threshold

\* daily_count < min_threshold
VolumeViolated(daily_count, min_threshold) == daily_count < min_threshold

\* max_amount > max_threshold
OutlierViolated(max_amount, max_threshold) == max_amount > max_threshold

\* hours_old > freshness_threshold, hours_old = seconds / 3600
StaleViolated(seconds_old, freshness_threshold) ==
    seconds_old > freshness_threshold * SecondsPerHour

\* f"{hours_old:.1f}": tenths of an hour, rounded to the nearest
HoursTenths(seconds_old) == (seconds_old * 10 + SecondsPerHour \div 2) \div SecondsPerHour

Issue(kind, detail, a, b) == [kind |-> kind, detail |-> detail, a |-> a, b |-> b]

MutHandleValidateError(issues, err) == issues

\* except Exception as e: quality_issues.append(f"Data quality check failed: {e}")
HandleValidateError(issues, err) == Append(issues, Issue("failed", err, 0, 0))

NoObs == [daily_count |-> -1, max_amount |-> -1, latest |-> SqlNull, fresh_now |-> -1,
          failed_at |-> "none"]

\* the exceptions the steps of validate_data_quality raise
ValErrors == {"OperationalError", "DatabaseError", "KeyError", "ValueError"}

\* except Exception: every one of them is an Exception
CaughtByExcept(err) == err \in ValErrors

\* an exception leaves the try block: the except branch, or the caller
ValExcept(err) ==
    /\ vpc' = "done"
    /\ IF CaughtByExcept(err)
       THEN /\ quality_issues' = HandleValidateError(quality_issues, err)
            /\ vraised' = FALSE
       ELSE /\ quality_issues' = quality_issues
            /\ vraised' = TRUE

Threshold(k) == config["quality_thresholds"][k]
HasThreshold(k) == Has(config, <<"quality_thresholds", k>>)

\* quality_issues = []; sqlite3.connect(...)
ValConnect ==
    /\ loaded
    /\ vpc = "idle"
    /\ quality_issues = <<>>
    /\ \E ok \in BOOLEAN :
          IF ok
          THEN /\ vpc' = "volume"
               /\ UNCHANGED <<quality_issues, obs, vraised>>
          ELSE /\ ValExcept("OperationalError")
               /\ obs' = [obs EXCEPT !.failed_at = "connect"]
    /\ UNCHANGED <<cfgvars, clock, table, today, ticks, checks_run, bakvars>>

\* lines 128-140: the transaction count of today
VolumeCheck ==
    /\ vpc = "volume"
    /\ checks_run' = checks_run \cup {"volume"}
    /\ today' = clock \div SecondsPerDay
    /\ \E ok \in BOOLEAN :
          IF ~ok
          THEN /\ ValExcept("DatabaseError")
               /\ obs' = [obs EXCEPT !.failed_at = "volume"]
          ELSE LET daily_count == CountOn(table, today')
               IN  IF ~HasThreshold("min_daily_transactions")
                   THEN /\ ValExcept("KeyError")
                        /\ obs' = [obs EXCEPT !.daily_count = daily_count,
                                              !.failed_at = "volume"]
                            ELSE LET min_threshold == Threshold("min_daily_transactions")
                        IN  /\ quality_issues' =
                                 IF VolumeViolated(daily_count, min_threshold)
                                 THEN Append(quality_issues,
                                             Issue("volume", "", daily_count, min_threshold))
                                 ELSE quality_issues
                            /\ obs' = [obs EXCEPT !.daily_count = daily_count]
                            /\ vpc' = "outlier"
                            /\ vraised' = vraised
    /\ UNCHANGED <<cfgvars, clock, table, ticks, bakvars>>

\* lines 142-154: the greatest amount of today
OutlierCheck ==
    /\ vpc = "outlier"
    /\ checks_run' = checks_run \cup {"outlier"}
    /\ \E ok \in BOOLEAN :
          IF ~ok
          THEN /\ ValExcept("DatabaseError")
               /\ obs' = [obs EXCEPT !.failed_at = "outlier"]
          ELSE LET max_amount == OrZero(MaxAmountOn(table, today))
               IN  IF ~HasThreshold("max_transaction_amount")
                   THEN /\ ValExcept("KeyError")
                        /\ obs' = [obs EXCEPT !.max_amount = max_amount,
                                              !.failed_at = "outlier"]
                            ELSE LET max_threshold == Threshold("max_transaction_amount")
                        IN  /\ quality_issues' =
                                 IF OutlierViolated(max_amount, max_threshold)
                                 THEN Append(quality_issues,
                                             Issue("outlier", "", max_amount, 0))
                                 ELSE quality_issues
                            /\ obs' = [obs EXCEPT !.max_amount = max_amount]
                            /\ vpc' = "fresh"
                            /\ vraised' = vraised
    /\ UNCHANGED <<cfgvars, clock, table, today, ticks, bakvars>>

\* lines 156-170: the age of the latest transaction
FreshCheck ==
    /\ vpc = "fresh"
    /\ checks_run' = checks_run \cup {"fresh"}
    /\ \E ok \in BOOLEAN :
          IF ~ok
          THEN /\ ValExcept("DatabaseError")
               /\ obs' = [obs EXCEPT !.failed_at = "fresh"]
          ELSE LET latest == LatestDate(table)
               IN  IF latest.is_null
                   THEN /\ obs' = [obs EXCEPT !.latest = latest, !.fresh_now = clock]
                        /\ vpc' = "done"
                        /\ UNCHANGED <<quality_issues, vraised>>
                   ELSE IF ~StrptimeOk(latest)
                   THEN /\ ValExcept("ValueError")
                        /\ obs' = [obs EXCEPT !.latest = latest, !.fresh_now = clock,
                                              !.failed_at = "fresh"]
                            ELSE IF ~HasThreshold("data_freshness_hours")
                   THEN /\ ValExcept("KeyError")
                        /\ obs' = [obs EXCEPT !.latest = latest, !.fresh_now = clock,
                                              !.failed_at = "fresh"]
                            ELSE LET seconds_old == clock - Strptime(latest)
                            freshness_threshold == Threshold("data_freshness_hours")
                        IN  /\ quality_issues' =
                                 IF StaleViolated(seconds_old, freshness_threshold)
                                 THEN Append(quality_issues,
                                             Issue("stale", "", HoursTenths(seconds_old),
                                                   freshness_threshold))
                                 ELSE quality_issues
                            /\ obs' = [obs EXCEPT !.latest = latest, !.fresh_now = clock]
                            /\ vpc' = "done"
                            /\ vraised' = vraised
    /\ UNCHANGED <<cfgvars, clock, table, today, ticks, bakvars>>

\* return quality_issues; the caller may call again
ValReturn ==
    /\ vpc = "done"
    /\ vpc' = "idle"
    /\ quality_issues' = <<>>
    /\ today' = -1
    /\ checks_run' = {}
    /\ obs' = NoObs
    /\ vraised' = FALSE
    /\ UNCHANGED <<cfgvars, clock, table, ticks, bakvars>>

\* a second passes while validate_data_quality runs
ValTick ==
    /\ vpc \in {"volume", "outlier", "fresh"}
    /\ ticks < MaxTicks
    /\ ticks' = ticks + 1
    /\ clock' = clock + 1
    /\ UNCHANGED <<cfgvars, table, vpc, quality_issues, today, checks_run, obs, vraised,
                   bakvars>>

ValIdle ==
    /\ table = <<>>
    /\ vpc = "idle"
    /\ quality_issues = <<>>
    /\ today = -1
    /\ ticks = 0
    /\ checks_run = {}
    /\ obs = NoObs
    /\ vraised = FALSE

-----------------------------------------------------------------------------
(* create_backup *)

\* the instant the model of create_backup starts at
BackupClock == 10 * SecondsPerDay

\* the ages, in days, of the files found in the backup directory
BackupAgeDays == {2, 4, 6, KeepDays, 8}

\* the age, in days, of the last change of the database file
DbAgeDays == {0, 8}

\* timedelta(days=7)
KeepSeconds == KeepDays * SecondsPerDay

NoFiles == [n \in {} |-> 0]

\* the directory with file `name` written, its modification time being mtime
WithFile(dir, name, mtime) ==
    [n \in DOMAIN dir \cup {name} |-> IF n = name THEN mtime ELSE dir[n]]

\* backup.unlink()
Unlink(dir, name) == [n \in DOMAIN dir \ {name} |-> dir[n]]

\* shutil.copy2(database_path, backup_file): copyfile, then copystat gives the copy
\* the modification time of the source. A copy that fails while writing (disk full)
\* leaves the part written so far, modified now; one that cannot open the source or
\* the destination leaves the directory as it was.
copy2(dir, src_mtime, name, now, outcome) ==
    IF outcome = "ok" THEN WithFile(dir, name, src_mtime)
    ELSE IF outcome = "disk_full" THEN WithFile(dir, name, now)
    ELSE dir

\* what may become of a copy: a missing source can only fail
CopyOutcomes(src_mtime) ==
    IF src_mtime = -1 THEN {"source_missing"}
    ELSE {"ok", "disk_full", "permission_denied"}

\* backup.stat().st_mtime < cutoff_date.timestamp()
Expired(mtime, cutoff) == mtime < cutoff

\* send_alert(subject, message): the alerts requested; it does not raise
send_alert(log, subject) == Append(log, subject)

MutHandleBackupError(log) == log

\* except Exception as e: ... self.send_alert("Backup Failed", ...)
HandleBackupError(log) == send_alert(log, "Backup Failed")

NoRun == [entry |-> NoFiles, backup_file |-> -1, copied |-> FALSE, copies |-> 0,
          cutoff |-> -1, failed |-> "none", del_failed |-> {}, raised |-> FALSE]

\* the exceptions the steps of create_backup raise, all of them OSError
BakErrors == {"FileNotFoundError", "PermissionError", "OSError"}

ErrorOf(outcome) ==
    IF outcome = "source_missing" THEN "FileNotFoundError"
    ELSE IF outcome = "permission_denied" THEN "PermissionError"
    ELSE "OSError"

\* except Exception (line 117): every one of them is an Exception
BackupCaught(err) == err \in BakErrors

\* an exception leaves the try block at the step `at`: the except branch, or the caller
BakExcept(run, at, err) ==
    /\ bpc' = "done"
    /\ IF BackupCaught(err)
       THEN /\ brun' = [run EXCEPT !.failed = at]
            /\ alerts' = HandleBackupError(alerts)
       ELSE /\ brun' = [run EXCEPT !.failed = at, !.raised = TRUE]
            /\ alerts' = alerts

\* lines 98-108: the directory, the name of the backup, the copy
BakCopy ==
    /\ loaded
    /\ bpc = "idle"
    /\ \E mkdir_ok \in BOOLEAN :
          IF ~mkdir_ok
          THEN /\ BakExcept([brun EXCEPT !.entry = backups], "mkdir", "OSError")
               /\ UNCHANGED backups
          ELSE \E outcome \in CopyOutcomes(db_mtime) :
                  LET backup_file == clock
                      run == [brun EXCEPT !.entry = backups,
                                          !.backup_file = backup_file,
                                          !.copies = brun.copies + 1]
                  IN  /\ backups' = copy2(backups, db_mtime, backup_file, clock, outcome)
                      /\ IF outcome = "ok"
                         THEN /\ brun' = [run EXCEPT !.copied = TRUE]
                              /\ bpc' = "copied"
                              /\ UNCHANGED alerts
                         ELSE BakExcept(run, "copy", ErrorOf(outcome))
    /\ UNCHANGED <<cfgvars, clock, valvars, db_mtime, todo>>

\* lines 111-112: the cutoff, and the files the glob finds
BakCutoff ==
    /\ bpc = "copied"
    /\ brun' = [brun EXCEPT !.cutoff = clock - KeepSeconds]
    /\ todo' = DOMAIN backups
    /\ bpc' = "prune"
    /\ UNCHANGED <<cfgvars, clock, valvars, db_mtime, backups, alerts>>

\* lines 112-115: one file of the loop, in whatever order the glob yields them
BakPruneOne ==
    /\ bpc = "prune"
    /\ \E backup \in todo :
          /\ todo' = todo \ {backup}
          /\ IF Expired(backups[backup], brun.cutoff)
             THEN \E unlink_ok \in BOOLEAN :
                     IF unlink_ok
                     THEN /\ backups' = Unlink(backups, backup)
                          /\ UNCHANGED <<bpc, brun, alerts>>
                     ELSE /\ BakExcept([brun EXCEPT !.del_failed = @ \cup {backup}],
                                       "unlink", "PermissionError")
                          /\ UNCHANGED backups
             ELSE UNCHANGED <<backups, bpc, brun, alerts>>
    /\ UNCHANGED <<cfgvars, clock, valvars, db_mtime>>

\* the loop has visited every file
BakPruneEnd ==
    /\ bpc = "prune"
    /\ todo = {}
    /\ bpc' = "done"
    /\ UNCHANGED <<cfgvars, clock, valvars, db_mtime, backups, todo, brun, alerts>>

\* create_backup returns; the caller may call it again
BakReturn ==
    /\ bpc = "done"
    /\ bpc' = "idle"
    /\ brun' = NoRun
    /\ alerts' = <<>>
    /\ todo' = {}
    /\ UNCHANGED <<cfgvars, clock, valvars, db_mtime, backups>>

\* a second passes while create_backup runs
BakTick ==
    /\ bpc \in {"copied", "prune"}
    /\ ticks < MaxTicks
    /\ ticks' = ticks + 1
    /\ clock' = clock + 1
    /\ UNCHANGED <<cfgvars, table, vpc, quality_issues, today, checks_run, obs, vraised,
                   bakvars>>

BakIdle ==
    /\ db_mtime = -1
    /\ backups = NoFiles
    /\ bpc = "idle"
    /\ todo = {}
    /\ brun = NoRun
    /\ alerts = <<>>

InitConfig ==
    /\ config_file \in FilesOver(FilePaths, MaxUserKeys)
    /\ config = <<>>
    /\ loaded = FALSE
    /\ clock = 0
    /\ ValIdle
    /\ BakIdle

NextConfig == Construct \/ Restart

SpecConfig == InitConfig /\ [][NextConfig]_vars

\* the files that give quality thresholds only
ThresholdPaths == {p \in FilePaths : p[1] = "quality_thresholds"}

ValidateClocks == {SecondsPerDay + SecondsPerHour - 1, 2 * SecondsPerDay - 1}

InitValidate ==
    /\ config_file \in FilesOver(ThresholdPaths, 4)
    /\ config = <<>>
    /\ loaded = FALSE
    /\ clock \in ValidateClocks
    /\ table \in Tables
    /\ vpc = "idle"
    /\ quality_issues = <<>>
    /\ today = -1
    /\ ticks = 0
    /\ checks_run = {}
    /\ obs = NoObs
    /\ vraised = FALSE
    /\ BakIdle

NextValidate ==
    \/ Construct
    \/ ValConnect
    \/ VolumeCheck
    \/ OutlierCheck
    \/ FreshCheck
    \/ ValReturn
    \/ ValTick

SpecValidate == InitValidate /\ [][NextValidate]_vars

\* the files that give at most a retention window
RetentionPaths == {<<k>> : k \in UnknownKeys}

\* the directories create_backup may find: files named by the second they were made
Directories ==
    {[n \in {BackupClock - d * SecondsPerDay : d \in A} |-> n] :
        A \in SubsetsUpTo(BackupAgeDays, MaxBackups)}

InitBackup ==
    /\ config_file \in FilesOver(RetentionPaths, 1)
    /\ config = <<>>
    /\ loaded = FALSE
    /\ clock = BackupClock
    /\ ValIdle
    /\ db_mtime \in {-1} \cup {BackupClock - d * SecondsPerDay : d \in DbAgeDays}
    /\ backups \in Directories
    /\ bpc = "idle"
    /\ todo = {}
    /\ brun = NoRun
    /\ alerts = <<>>

NextBackup ==
    \/ Construct
    \/ BakCopy
    \/ BakCutoff
    \/ BakPruneOne
    \/ BakPruneEnd
    \/ BakReturn
    \/ BakTick

SpecBackup == InitBackup /\ [][NextBackup]_vars

-----------------------------------------------------------------------------
(* Claims about load_config *)

Supplied(file, p) == Has(file.obj, p)

\* C1 - after load_config has read a file that is a JSON object, every documented
\* option the file does not supply, nested ones included, holds its documented default.
C1_MissingKeysDefault ==
    (loaded /\ config_file.kind = "object") =>
        \A p \in DocumentedPaths :
            ~Supplied(config_file, p) =>
                Has(config, p) /\ Get(config, p) = Get(default_config, p)

-----------------------------------------------------------------------------
(* Claims about validate_data_quality *)

Returned == vpc = "done"

HasIssue(kind) == \E i \in 1 .. Len(quality_issues) : quality_issues[i].kind = kind
IssuesOf(kind) == {i \in 1 .. Len(quality_issues) : quality_issues[i].kind = kind}

\* C2 (as claimed) - validate_data_quality never raises, and whenever the connection
\* or a query of the pass fails the returned list has exactly one element, which
\* describes the failure.
C2_FailureIsOnlyElement ==
    Returned =>
        /\ ~vraised
        /\ obs.failed_at # "none" =>
              /\ Len(quality_issues) = 1
              /\ quality_issues[1].kind = "failed"

\* C2 (amended) - validate_data_quality never raises and returns a list; whenever the
\* connection or a step of the pass fails, the last element of the list describes the
\* failure and no other element does, the issues of the checks that ran before it come
\* first, and the list has exactly one element when the connection or the volume
\* check is what failed.
C2_FailureIsLastElement ==
    Returned =>
        /\ ~vraised
        /\ obs.failed_at # "none" =>
              /\ Len(quality_issues) >= 1
              /\ IssuesOf("failed") = {Len(quality_issues)}
              /\ obs.failed_at \in {"connect", "volume"} => Len(quality_issues) = 1
              /\ obs.failed_at = "outlier" => Len(quality_issues) <= 2
              /\ obs.failed_at = "fresh" => Len(quality_issues) <= 3
        /\ obs.failed_at = "none" => IssuesOf("failed") = {}

C2_Witness ==
    /\ Returned
    /\ obs.failed_at = "outlier"
    /\ Len(quality_issues) = 2
    /\ quality_issues[1].kind = "volume"
    /\ quality_issues[2].kind = "failed"

\* C3 - once the connection is open, a call enters all three checks, whatever the
\* outcome of the earlier ones, an exception raised in an earlier check included.
C3_AllChecksRun ==
    (Returned /\ obs.failed_at # "connect") =>
        checks_run = {"volume", "outlier", "fresh"}

\* C4 - when the freshness query has returned and the threshold is configured: no
\* freshness issue for an empty table; otherwise a freshness issue is in the result
\* if and only if the time from the latest transaction to the validation instant is
\* strictly greater than data_freshness_hours.
C4_FreshnessBoundary ==
    (Returned /\ obs.fresh_now # -1 /\ HasThreshold("data_freshness_hours")) =>
        IF obs.latest.is_null
        THEN ~HasIssue("stale")
        ELSE HasIssue("stale") <=>
                obs.fresh_now - InstantOf(obs.latest)
                    > Threshold("data_freshness_hours") * SecondsPerHour

\* C9 - when the volume query has returned and the threshold is configured, a volume
\* issue is in the list if and only if the count of the rows dated today is strictly
\* below min_daily_transactions, and the issue names that count and the threshold.
C9_VolumeBoundary ==
    (vpc # "idle" /\ obs.daily_count # -1 /\ HasThreshold("min_daily_transactions")) =>
        LET n == CountOn(table, today)
            m == Threshold("min_daily_transactions")
        IN  /\ HasIssue("volume") <=> n < m
            /\ n = m - 1 => Cardinality(IssuesOf("volume")) = 1
            /\ n = m => ~HasIssue("volume")
            /\ \A i \in IssuesOf("volume") :
                  quality_issues[i].a = n /\ quality_issues[i].b = m

C9_Witness ==
    /\ vpc = "outlier"
    /\ CountOn(table, today) = Threshold("min_daily_transactions") - 1
    /\ CountOn(table, today) > 0
    /\ HasIssue("volume")

-----------------------------------------------------------------------------
(* Claims about create_backup *)

BackupReturned == bpc = "done"

\* the retention window of the run configuration, in days
retentionDays ==
    IF "retention_days" \in DOMAIN config THEN config["retention_days"] ELSE KeepDays

\* the whole days from the last change of a file to `now`
AgeInDays(mtime, now) == (now - mtime) \div SecondsPerDay

\* C5 - when create_backup has run its cleanup loop to the end, every file it found
\* whose last change is retentionDays + 1 days before the cleanup is deleted, and
\* every file whose last change is retentionDays - 1 days before it is kept.
C5_ConfiguredRetention ==
    (BackupReturned /\ brun.failed = "none") =>
        LET now == brun.cutoff + KeepSeconds
        IN  \A f \in DOMAIN brun.entry :
               /\ AgeInDays(brun.entry[f], now) = retentionDays + 1
                     => f \notin DOMAIN backups
               /\ AgeInDays(brun.entry[f], now) = retentionDays - 1
                     => f \in DOMAIN backups

\* C6 - when the copy fails, create_backup does not raise, has tried the copy once,
\* has deleted none of the files the directory held (and changed none but the one
\* carrying the name of the new backup), and has requested exactly one alert, with
\* subject "Backup Failed".
C6_CopyFailure ==
    (BackupReturned /\ brun.failed = "copy") =>
        /\ ~brun.raised
        /\ brun.copies = 1
        /\ ~brun.copied
        /\ \A f \in DOMAIN brun.entry :
              /\ f \in DOMAIN backups
              /\ f # brun.backup_file => backups[f] = brun.entry[f]
        /\ alerts = <<"Backup Failed">>

C6_Witness ==
    /\ BackupReturned
    /\ brun.failed = "copy"
    /\ \E f \in DOMAIN brun.entry : Expired(brun.entry[f], clock - KeepSeconds)
    /\ alerts = <<"Backup Failed">>

\* C7 - when creating the backup fails, the files older than the retention window
\* are deleted all the same.
C7_PruneDespiteFailure ==
    (BackupReturned /\ brun.failed \in {"mkdir", "copy"}) =>
        \A f \in DOMAIN backups : ~Expired(backups[f], clock - KeepSeconds)

\* C8 - when a backup was created and the deletion of an expired file fails, every
\* other expired file is deleted in the same call and no "Backup Failed" alert is
\* requested.
C8_DeletionFailureSkipped ==
    (BackupReturned /\ brun.copied /\ brun.del_failed # {}) =>
        /\ \A f \in DOMAIN backups :
              Expired(backups[f], brun.cutoff) => f \in brun.del_failed
        /\ \A i \in 1 .. Len(alerts) : alerts[i] # "Backup Failed"

\* C10 - the backup a call of create_backup has written exists when the call returns.
C10_NewBackupSurvives ==
    (BackupReturned /\ brun.copied) => brun.backup_file \in DOMAIN backups

====
